---- MODULE Spec2Model ----
(***************************************************************************)
(* Model of the ASR / LLM experiment harness (src/test): the batch runner  *)
(* (ASRProcessor.transcribe, LLMProcessor.summarize), the log timing       *)
(* extractor (_parse_log_file) and the metrics join (ASRProcessor.metrics, *)
(* LLMProcessor.metrics).                                                  *)
(*                                                                         *)
(* A file name is a sequence of tokens, "." being the dot, so that         *)
(* Path.stem and Path.suffix are computed as pathlib computes them.        *)
(* A path is a record [dir, name, isfile].                                 *)
(***************************************************************************)
EXTENDS Integers, Sequences, FiniteSets, TLC

\* ------------------------------------------------------------------ bounds
MaxFiles == 3      \* most entries in the dataset directory tree
MaxThreads == 2    \* largest --max-threads tried (0 .. MaxThreads)
MaxRuns == 2       \* consecutive runs of the same command on the same directories
MaxLog == 3        \* most lines of a log file handed to the timing extractor
MaxPolls == 2      \* the sleeps of a waiting loop are counted up to this number
MaxSegs == 2       \* most events an azure session delivers to recognized_cb

\* ------------------------------------------------------------------ pathlib
\* index of the last "." of a name, 0 when there is none (str.rfind)
LastDot(name) ==
    LET S == {i \in 1..Len(name) : name[i] = "."}
    IN IF S = {} THEN 0 ELSE CHOOSE i \in S : \A j \in S : j <= i

\* pathlib: a suffix exists when the last dot is neither the first nor the last character
HasSuffix(name) == LastDot(name) > 1 /\ LastDot(name) < Len(name)

Suffix(name) == IF HasSuffix(name) THEN SubSeq(name, LastDot(name), Len(name)) ELSE <<>>

Stem(name) == IF HasSuffix(name) THEN SubSeq(name, 1, LastDot(name) - 1) ELSE name

\* Path(output_dir) / (stem + ".json"): the name of a unit's output file
OutName(path, ext) == Stem(path.name) \o <<".", ext>>

\* rglob("*") without the is_file() test
FindFilesAnyEntry(tree, ext) ==
    LET Keep(e) == Suffix(e.name) = <<".", ext>>
    IN SelectSeq(tree, Keep)

\* utils/fs.py find_files: the regular files whose suffix equals the extension,
\* in the order the directory tree lists them
FindFiles(tree, ext) ==
    LET Keep(e) == e.isfile /\ Suffix(e.name) = <<".", ext>>
    IN SelectSeq(tree, Keep)

\* ------------------------------------------------------------------ registry
\* asr/processor.py transcribers: system -> supports_multithreading
\* (cloud_s2t, azure, speechkit share salute's row; vosk, wav2vec2 share whisper's)
transcribers == [salute |-> TRUE, whisper |-> FALSE]

ASRSystems == {"salute", "whisper"}
LLMSystems == {"gigachat"}

Domain(sys) == IF sys \in ASRSystems THEN "asr" ELSE "llm"

\* extension of the files a system reads and of the files it writes
InputExt(sys) == IF Domain(sys) = "asr" THEN "mp3" ELSE "txt"
OutputExt(sys) == IF sys = "whisper" THEN "txt" ELSE "json"

\* does the vendor callable log an operation-level line with its own elapsed time
LogsOperation(sys) == sys = "salute"

\* ------------------------------------------------------------------ state
VARIABLES
    system,       \* --system
    max_threads,  \* --max-threads
    env,          \* every environment variable config.py reads is set
    root,         \* what --dataset-dir names: "dir" | "missing" | "file"
    dataset,      \* the dataset directory tree, in listing order
    made,         \* the directory <output_dir>/<system>[/<model>] exists
    outdir,       \* files of <output_dir>/<system>[/<model>]: name -> content
    run,          \* number of the current run of the command
    pc,           \* "idle" | "running" | "done" | "setup_error" | "error" | "raised"
    items,        \* mp3_files / transcript_paths of the current run
    st,           \* per item: "new" | "queued" | "running" | "ok" | "failed"
    calls,        \* per item: invocations of the vendor callable
    vraised,      \* per item: the vendor callable raised
    counted,      \* per item: times its result was added to the processed count
    count,        \* count_proccessed_file / count_processed_transcript
    log,          \* the lines the current run has appended to the log file
    runs,         \* one summary per finished run
    outdir0,      \* the output directory as the current run found it
    \* -- a call of the log timing extractor
    logfile,      \* the lines of the log file
    timing,       \* the list _parse_log_file returned
    lpc,          \* "off" | "input" | "parsed" (ASR extractor) | "parsed_llm"
    \* -- a metrics run
    mdomain,      \* "off" | "asr" | "llm"
    hyps,         \* the hypotheses directory, in listing order
    refs,         \* the reference directory, in listing order
    csv,          \* <hypotheses_dir>/metrics.csv: <<>> when absent, else <<rows>>
    csv0,         \* metrics.csv as the run found it
    mpc,          \* "off" | "ready" | "done" | "raised"
    \* -- one unit of asr transcribe on a cloud vendor, and its remote job
    vendor,       \* "salute" | "speechkit" | "azure"
    job,          \* the remote job: "pending" | "done" | "error" | "canceled"
    seen,         \* the status the vendor reported last, "none" before the first report
    polls,        \* times the waiting loop went to sleep, counted up to MaxPolls
    segs,         \* azure: the events delivered to recognized_cb, in delivery order
    upc,          \* "off" | "idle" | "waiting" | "sleeping" | "finished" | "returned" |
                  \* "raising" | "ended"
    ures,         \* what the wrapper returned: "unset" | "path" | "none"
    ufile,        \* the unit's output file: "absent" | "written"
    ulines,       \* azure: the lines of the output file
    ulog,         \* the kinds of the lines the unit logged to the log file
    \* -- a run of asr parse
    psystem,      \* --system
    ptree,        \* the input directory tree, in listing order
    pfiles,       \* json_files
    pidx,         \* the position of the loop in json_files
    ptxt,         \* the .txt files of the tree: [dir, name] -> [by, full]
    ppc,          \* "off" | "idle" | "running" | "done" | "raised" | "write_raised"
    \* -- a call of find_files
    froot,        \* what the directory argument names: "dir" | "missing" | "file"
    ftree,        \* the entries below it, in listing order
    fext,         \* the extension argument, without its dot
    found,        \* the paths the call yields
    fpc,          \* "off" | "call" | "returned" | "raised"
    \* -- the salute client's TokenAuth, shared by the worker threads
    lock,         \* self._lock: the thread that holds it, 0 when it is free
    access_token, \* self._access_token: the number of the token, 0 for ""
    expires_at,   \* self._expires_at
    now,          \* time.time(), in units of 300 s
    issued,       \* the tokens the service has issued: number -> expiry time
    apc,          \* per thread: "idle" | "check" | "refresh" | "store_token" |
                  \* "store_expiry" | "attach"
    resp,         \* per thread: the response of its refresh request
    since,        \* per thread: the time at which it took the lock
    sent          \* per thread: the Authorization header of its last request

batchvars == <<system, max_threads, env, root, dataset, made, outdir, run, pc, items, st,
               calls, vraised, counted, count, log, runs, outdir0>>
logvars == <<logfile, timing, lpc>>
metvars == <<mdomain, hyps, refs, csv, csv0, mpc>>

jobvars == <<vendor, job, seen, polls, segs, upc, ures, ufile, ulines, ulog>>

parsevars == <<psystem, ptree, pfiles, pidx, ptxt, ppc>>

fsvars == <<froot, ftree, fext, found, fpc>>

authvars == <<lock, access_token, expires_at, now, issued, apc, resp, since, sent>>

vars == <<batchvars, logvars, metvars, jobvars, parsevars, fsvars, authvars>>

\* what the actions of one part leave alone
notbatch == <<logvars, metvars, jobvars, parsevars, fsvars, authvars>>
notlog == <<batchvars, metvars, jobvars, parsevars, fsvars, authvars>>
notmet == <<batchvars, logvars, jobvars, parsevars, fsvars, authvars>>
notjob == <<batchvars, logvars, metvars, parsevars, fsvars, authvars>>
notparse == <<batchvars, logvars, metvars, jobvars, fsvars, authvars>>
notfs == <<batchvars, logvars, metvars, jobvars, parsevars, authvars>>
notauth == <<batchvars, logvars, metvars, jobvars, parsevars, fsvars>>

\* the parts of the state a specification does not exercise
LogOff == logfile = <<>> /\ timing = <<>> /\ lpc = "off"
MetOff ==
    /\ mdomain = "off" /\ hyps = <<>> /\ refs = <<>>
    /\ csv = <<>> /\ csv0 = <<>> /\ mpc = "off"
JobOff ==
    /\ vendor = "salute" /\ job = "pending" /\ seen = "none" /\ polls = 0 /\ segs = <<>>
    /\ upc = "off" /\ ures = "unset" /\ ufile = "absent" /\ ulines = <<>> /\ ulog = <<>>
ParseOff ==
    /\ psystem = "salute" /\ ptree = <<>> /\ pfiles = <<>> /\ pidx = 0
    /\ ptxt = <<>> /\ ppc = "off"
FsOff ==
    /\ froot = "dir" /\ ftree = <<>> /\ fext = "mp3" /\ found = <<>> /\ fpc = "off"

AuthOff ==
    /\ lock = 0 /\ access_token = 0 /\ expires_at = 0 /\ now = 0 /\ issued = <<>>
    /\ apc = <<>> /\ resp = <<>> /\ since = <<>> /\ sent = <<>>

NoPath == [dir |-> "", name |-> <<>>, isfile |-> FALSE]

\* content of an output file: who wrote it (run 0: before the first run) and
\* whether the write finished
OldContent == [run |-> 0, src |-> NoPath, full |-> TRUE]

\* the directory entries a dataset may hold: two files with the same name in
\* different directories, a third file, and a file with an upper-case extension
Universe(sys) ==
    << [dir |-> "", name |-> <<"a", ".", InputExt(sys)>>, isfile |-> TRUE],
       [dir |-> "sub", name |-> <<"a", ".", InputExt(sys)>>, isfile |-> TRUE],
       [dir |-> "", name |-> <<"b", ".", InputExt(sys)>>, isfile |-> TRUE],
       [dir |-> "", name |-> <<"c", ".", "UPPER">>, isfile |-> TRUE] >>

\* the subsequence of seq at the indices in S
Pick(seq, S) ==
    LET In(e) == \E i \in S : seq[i] = e
    IN SelectSeq(seq, In)

\* output files that may exist before the first run
PreExisting(sys) == {<<"a", ".", OutputExt(sys)>>}

Init ==
    /\ system \in ASRSystems \cup LLMSystems
    /\ max_threads \in 0..MaxThreads
    /\ env \in BOOLEAN
    /\ root \in {"dir", "missing", "file"}
    /\ \E S \in SUBSET (1..Len(Universe(system))) :
          /\ Cardinality(S) <= MaxFiles
          /\ root # "dir" => S = {}
          /\ dataset = Pick(Universe(system), S)
    /\ \E P \in SUBSET PreExisting(system) : outdir = [n \in P |-> OldContent]
    /\ made = (DOMAIN outdir # {})
    /\ run = 1
    /\ pc = "idle"
    /\ items = <<>>
    /\ st = <<>>
    /\ calls = <<>>
    /\ vraised = <<>>
    /\ counted = <<>>
    /\ count = 0
    /\ log = <<>>
    /\ runs = <<>>
    /\ outdir0 = outdir
    /\ LogOff
    /\ MetOff
    /\ JobOff
    /\ ParseOff
    /\ FsOff
    /\ AuthOff

\* ------------------------------------------------------------------ batch runner
\* llm/processor.py:58: stems of the .json files already in the output directory
\* (the runner creates no directory below it, so the directory is flat)
exist_transcripts_txt ==
    {Stem(n) : n \in {m \in DOMAIN outdir : Suffix(m) = <<".", "txt">>}}
exist_transcripts ==
    {Stem(n) : n \in {m \in DOMAIN outdir : Suffix(m) = <<".", "json">>}}

Discovered == FindFiles(dataset, InputExt(system))

\* the inputs a run dispatches: every discovered file (ASR), or the discovered
\* files whose stem has no output yet (LLM)
ToDispatchAll == Discovered

ToDispatchSkipExisting ==
    LET Todo(p) == OutName(p, OutputExt(system)) \notin DOMAIN outdir
    IN SelectSeq(Discovered, Todo)

ToDispatch ==
    LET Todo(p) == Stem(p.name) \notin exist_transcripts
    IN IF Domain(system) = "llm" THEN SelectSeq(Discovered, Todo) ELSE Discovered

\* asr/processor.py:82; the LLM runner always goes through the pool
UsesPool ==
    IF Domain(system) = "asr" THEN transcribers[system] /\ max_threads > 1 ELSE TRUE

\* ThreadPoolExecutor(max_workers) raises ValueError unless max_workers > 0
PoolRejects == Domain(system) = "llm" /\ max_threads <= 0

N == Len(items)

\* utils/fs.py:5-7: find_files raises ValueError unless the path is a directory
InvalidDirectoryNever(r) == FALSE
InvalidDirectory(r) == r # "dir"

\* the command ends before the runner dispatches anything: config.py raises
\* KeyError when main.py imports the processors, or find_files(dataset_dir) raises
SetupFails == ~env \/ InvalidDirectory(root)

\* output_dir_path.mkdir(parents=True, exist_ok=True) is reached: in transcribe
\* after find_files(dataset_dir) (asr/processor.py:74-78), in summarize before it
\* (llm/processor.py:55-64)
MakesOutputDir == env /\ (Domain(system) = "llm" \/ ~InvalidDirectory(root))

\* ---- the per-item wrapper (_transcriber_wrapper, _summarizer_wrapper)
\* what one unit can do: succeed; fail reading the transcript (LLM wrapper);
\* the vendor callable raises; the output file is created and the write raises
Outcomes(sys) ==
    IF Domain(sys) = "asr" THEN {"ok", "vendor_raise", "write_raise"}
    ELSE {"ok", "read_raise", "vendor_raise", "write_raise"}

\* what the wrapper hands back: the output path, or None from its except clause
WrapperResultPropagates(o) == IF o = "ok" THEN "path" ELSE "raise"
WrapperResult(o) == IF o = "ok" THEN "path" ELSE "none"

\* the state of an item once its wrapper call has ended
Ended(o) ==
    CASE WrapperResult(o) = "path" -> "ok"
      [] WrapperResult(o) = "none" -> "failed"
      [] OTHER -> "raised"

\* the vendor callable is entered unless reading the transcript already failed
VendorCallsRetry(o) == IF o = "read_raise" THEN 0 ELSE IF o = "vendor_raise" THEN 2 ELSE 1
VendorCalls(o) == IF o = "read_raise" THEN 0 ELSE 1

\* the ASR vendor callable writes the output itself, so a failed write is its failure
VendorRaised(sys, o) ==
    o = "vendor_raise" \/ (Domain(sys) = "asr" /\ o = "write_raise")

\* the output directory after a unit: a finished file, a file left half written,
\* or no change
AfterWrite(dir, path, o, r, sys) ==
    LET n == OutName(path, OutputExt(sys))
        keep == [m \in DOMAIN dir \ {n} |-> dir[m]]
    IN CASE o = "ok" -> keep @@ (n :> [run |-> r, src |-> path, full |-> TRUE])
         [] o = "write_raise" -> keep @@ (n :> [run |-> r, src |-> path, full |-> FALSE])
         [] OTHER -> dir

Line(kind, path) == [kind |-> kind, file |-> path]

\* a wrapper that logged "completed" in a finally clause, whatever happened
EndLinesCompletedAlways(path, o, sys) == <<Line("completed", path)>>

\* the lines the unit appends after "starting ...": the vendor's operation-level
\* line when the remote job ended, then "completed, output saved to" or the error
EndLines(path, o, sys) ==
    (IF LogsOperation(sys) /\ o \in {"ok", "write_raise"}
        THEN <<Line("operation", path)>> ELSE <<>>)
    \o <<Line(IF o = "ok" THEN "completed" ELSE "error", path)>>

Finished(i) == st[i] \in {"ok", "failed", "raised"}

\* the first index of the current run whose state is s, 0 when there is none
First(s) ==
    LET S == {i \in 1..N : st[i] = s}
    IN IF S = {} THEN 0 ELSE CHOOSE i \in S : \A j \in S : i <= j

InProgress == {i \in 1..N : st[i] = "running"}

\* ThreadPoolExecutor(max_workers=max_threads): a queued work item starts only
\* while fewer than max_workers threads are busy
PoolUnbounded == TRUE
PoolHasIdleThread == Cardinality(InProgress) < max_threads

RECURSIVE SumSeq(_)
SumSeq(q) == IF q = <<>> THEN 0 ELSE Head(q) + SumSeq(Tail(q))

\* ---- a run starts: registry lookup, discovery, resume filter, mkdir
BeginRun ==
    /\ pc = "idle" \/ (pc = "done" /\ run < MaxRuns)
    /\ run' = IF pc = "done" THEN run + 1 ELSE run
    /\ items' = IF SetupFails THEN <<>> ELSE ToDispatch
    /\ st' = [i \in 1..Len(items') |-> "new"]
    /\ calls' = [i \in 1..Len(items') |-> 0]
    /\ vraised' = [i \in 1..Len(items') |-> FALSE]
    /\ counted' = [i \in 1..Len(items') |-> 0]
    /\ count' = 0
    /\ outdir0' = outdir
    /\ log' = <<>>
    /\ made' = (made \/ MakesOutputDir)
    /\ pc' = IF SetupFails THEN "setup_error" ELSE IF PoolRejects THEN "error" ELSE "running"
    /\ UNCHANGED <<system, max_threads, env, root, dataset, outdir, runs>>
    /\ UNCHANGED notbatch

\* the bookkeeping of a unit that ends with outcome o
EndUnit(i, o) ==
    /\ st' = [st EXCEPT ![i] = Ended(o)]
    /\ calls' = [calls EXCEPT ![i] = @ + VendorCalls(o)]
    /\ vraised' = [vraised EXCEPT ![i] = VendorRaised(system, o)]
    /\ outdir' = AfterWrite(outdir, items[i], o, run, system)
    /\ log' = log \o EndLines(items[i], o, system)

\* ---- sequential dispatch (asr/processor.py:91-93)
SeqStart ==
    /\ pc = "running" /\ ~UsesPool
    /\ InProgress = {}
    /\ First("new") # 0
    /\ st' = [st EXCEPT ![First("new")] = "running"]
    /\ log' = Append(log, Line("starting", items[First("new")]))
    /\ UNCHANGED <<system, max_threads, env, root, dataset, made, outdir, outdir0, run, pc, items,
                   calls, vraised, counted, count, runs>>
    /\ UNCHANGED notbatch

SeqFinish ==
    /\ pc = "running" /\ ~UsesPool
    /\ \E i \in InProgress : \E o \in Outcomes(system) :
          /\ EndUnit(i, o)
          /\ counted' = [counted EXCEPT ![i] = IF Ended(o) = "raised" THEN @ ELSE @ + 1]
          /\ count' = count + (IF Ended(o) = "ok" THEN 1 ELSE 0)
          /\ pc' = IF Ended(o) = "raised" THEN "raised" ELSE pc
    /\ UNCHANGED <<system, max_threads, env, root, dataset, made, outdir0, run, items, runs>>
    /\ UNCHANGED notbatch

\* ---- pool dispatch (asr/processor.py:83-89, llm/processor.py:72-78)
\* executor.submit, in list order
Submit ==
    /\ pc = "running" /\ UsesPool
    /\ First("new") # 0
    /\ st' = [st EXCEPT ![First("new")] = "queued"]
    /\ UNCHANGED <<system, max_threads, env, root, dataset, made, outdir, outdir0, run, pc, items,
                   calls, vraised, counted, count, log, runs>>
    /\ UNCHANGED notbatch

\* a pool thread takes the oldest queued work item; the pool holds max_workers threads
WorkerStart ==
    /\ pc = "running" /\ UsesPool
    /\ First("queued") # 0
    /\ PoolHasIdleThread
    /\ st' = [st EXCEPT ![First("queued")] = "running"]
    /\ log' = Append(log, Line("starting", items[First("queued")]))
    /\ UNCHANGED <<system, max_threads, env, root, dataset, made, outdir, outdir0, run, pc, items,
                   calls, vraised, counted, count, runs>>
    /\ UNCHANGED notbatch

WorkerFinish ==
    /\ pc = "running" /\ UsesPool
    /\ \E i \in InProgress : \E o \in Outcomes(system) : EndUnit(i, o)
    /\ UNCHANGED <<system, max_threads, env, root, dataset, made, outdir0, run, pc, items,
                   counted, count, runs>>
    /\ UNCHANGED notbatch

\* as_completed: once every unit is submitted, each finished future is taken once,
\* in completion order; future.result() re-raises what the callable raised
Collect ==
    /\ pc = "running" /\ UsesPool
    /\ First("new") = 0
    /\ \E i \in 1..N :
          /\ Finished(i) /\ counted[i] = 0
          /\ IF st[i] = "raised"
                THEN pc' = "raised" /\ UNCHANGED <<counted, count>>
                ELSE /\ counted' = [counted EXCEPT ![i] = @ + 1]
                     /\ count' = count + (IF st[i] = "ok" THEN 1 ELSE 0)
                     /\ pc' = pc
    /\ UNCHANGED <<system, max_threads, env, root, dataset, made, outdir, outdir0, run, items, st,
                   calls, vraised, log, runs>>
    /\ UNCHANGED notbatch

\* the positions of the log lines of one kind
LinesOf(kind) == {k \in 1..Len(log) : log[k].kind = kind}

\* the names this run has written so far
Written == {n \in DOMAIN outdir : outdir[n].run = run}

\* ---- "... completed for %d ... out of %d" (asr/processor.py:95, llm/processor.py:80)
Report ==
    /\ pc = "running"
    /\ \A i \in 1..N : Finished(i) /\ counted[i] > 0
    /\ pc' = "done"
    /\ runs' = Append(runs, [discovered |-> Len(Discovered),
                             total |-> N,
                             processed |-> count,
                             vendor_calls |-> SumSeq(calls),
                             vendor_raised |-> Cardinality({i \in 1..N : vraised[i]}),
                             errors_logged |-> Cardinality(LinesOf("error")),
                             written |-> Cardinality(Written),
                             empty_start |-> DOMAIN outdir0 = {}])
    /\ UNCHANGED <<system, max_threads, env, root, dataset, made, outdir, outdir0, run, items, st,
                   calls, vraised, counted, count, log>>
    /\ UNCHANGED notbatch

Next ==
    \/ BeginRun
    \/ SeqStart
    \/ SeqFinish
    \/ Submit
    \/ WorkerStart
    \/ WorkerFinish
    \/ Collect
    \/ Report

Spec == Init /\ [][Next]_vars

\* the threads run and every vendor call returns or raises
FairSpec == Spec /\ WF_vars(Next)

\* ------------------------------------------------------------------ claims: batch runner
Active == pc \in {"running", "done"}

ItemSet == {items[i] : i \in 1..N}

\* how many "starting ..." lines the current run logged for item i
Starts(i) == Cardinality({k \in LinesOf("starting") : log[k].file = items[i]})

\* C1: a finished run that started on an empty output directory and in which
\* every unit succeeded has processed N out of N discovered files and has left
\* exactly N output files, one per input (stated for sequential and pool dispatch alike)
C1_AllSucceedLeavesNFiles ==
    (pc = "done" /\ DOMAIN outdir0 = {} /\ \A i \in 1..N : st[i] = "ok")
        => /\ N = Len(Discovered)
           /\ count = Len(Discovered)
           /\ Cardinality(Written) = Len(Discovered)

\* C2: a finished run in which the vendor callable raised on exactly K units
\* (and nothing else went wrong) has processed N-K out of N, has logged exactly K
\* failures and has left exactly N-K output files
C2_KFailuresLeaveNMinusKFiles ==
    LET K == Cardinality({i \in 1..N : vraised[i]})
    IN (/\ pc = "done"
        /\ DOMAIN outdir0 = {}
        /\ \A i \in 1..N : st[i] = "failed" => vraised[i]
        /\ \A n \in Written : outdir[n].full)
        => /\ count = N - K
           /\ Cardinality(LinesOf("error")) = K
           /\ Cardinality(Written) = N - K

\* C3: no unit's failure escapes the runner, a started run always reaches its
\* final report, and by then every dispatched unit has been attempted
C3_BatchAlwaysCompletes ==
    /\ [](pc # "raised")
    /\ [](pc = "done" => \A i \in 1..N : Finished(i) /\ Starts(i) >= 1)
    /\ (pc = "running" ~> pc = "done")

C3_Witness ==
    /\ pc = "done" /\ N >= 2
    /\ st[1] = "failed" /\ st[2] = "ok"
    /\ count = 1

\* C4 (as claimed): every dispatched unit has its vendor callable invoked exactly
\* once and is counted at most once
C4_VendorCalledExactlyOnce ==
    \A i \in 1..N :
        /\ calls[i] <= 1
        /\ counted[i] <= 1
        /\ pc = "done" => calls[i] = 1

\* C4 (amended): every dispatched unit has its wrapper entered exactly once, its
\* vendor callable invoked at most once - exactly once for an ASR unit and for a
\* unit that is counted as processed; an LLM unit can fail before the call - and
\* its result counted at most once
C4_AttemptedOnceCountedOnce ==
    \A i \in 1..N :
        /\ calls[i] <= 1
        /\ counted[i] <= 1
        /\ Starts(i) <= 1
        /\ pc = "done" =>
              /\ Starts(i) = 1
              /\ counted[i] = 1
              /\ calls[i] = 1 \/ (Domain(system) = "llm" /\ st[i] = "failed")

C4_Witness ==
    /\ pc = "done" /\ UsesPool /\ max_threads >= 2 /\ N >= 2
    /\ \E i, j \in 1..N : st[i] = "failed" /\ calls[i] = 1 /\ st[j] = "ok"

C6_ExistingOutputSkippedAndKept ==
    (Domain(system) = "llm" /\ Active) =>
        \A k \in 1..Len(Discovered) :
            LET n == OutName(Discovered[k], "json")
            IN IF n \in DOMAIN outdir0
                  THEN /\ Discovered[k] \notin ItemSet
                       /\ n \in DOMAIN outdir
                       /\ outdir[n] = outdir0[n]
                  ELSE Discovered[k] \in ItemSet

C6_Witness ==
    /\ Domain(system) = "llm" /\ pc = "done" /\ run = 1
    /\ DOMAIN outdir0 # {}
    /\ Len(Discovered) = 3 /\ N = 1 /\ st[1] = "ok"

\* C7: within one run no two units have the same output path
C7_DistinctOutputPaths ==
    Active =>
        \A i, j \in 1..N :
            i # j => OutName(items[i], OutputExt(system)) # OutName(items[j], OutputExt(system))

\* C8: in pool dispatch at most max_threads units are in progress at any moment,
\* and results are collected only once every unit has been submitted to the pool
C8_PoolBound ==
    (Active /\ UsesPool) =>
        /\ Cardinality(InProgress) <= max_threads
        /\ (\E i \in 1..N : counted[i] > 0) => \A j \in 1..N : st[j] # "new"
        /\ pc = "done" => \A j \in 1..N : Starts(j) = 1

C8_Witness ==
    /\ UsesPool /\ pc = "running" /\ N = 3 /\ max_threads = 2
    /\ Cardinality(InProgress) = 2
    /\ \E i \in 1..N : st[i] = "queued"

\* ------------------------------------------------------------------ log timing extractor
\* A line of the log file, as the regular expressions of _parse_log_file see it:
\*   hdr     the line has the shape "LEVEL, thread_id: T, logger_name: N, func_name: F - MESSAGE"
\*   msg     "asr_completed": the message is "transcription completed, output saved to: ...";
\*           "llm_completed": "summarization completed, output saved to: ..."; "other"
\*   func    func_name
\*   file    extra current_file (NoPath: the extra is absent)
\*   elapsed extra elapsed_time_sec in tenths of a second (-1: the extra is absent);
\*           times are at least 1e-4 s, which Python prints in positional notation, so
\*           [\d.]+ and float() give the logged value back
LogLine(hdr, msg, func, file, elapsed) ==
    [hdr |-> hdr, msg |-> msg, func |-> func, file |-> file, elapsed |-> elapsed]

Mp3(dir, stem) == [dir |-> dir, name |-> <<stem, ".", "mp3">>, isfile |-> TRUE]

LogPaths == {Mp3("", "a"), Mp3("sub", "a"), Mp3("", "b")}

\* 3.0 s and 12.5 s
Elapsed == {30, 125}

\* the lines the harness writes, and lines that only look like them
LogLines ==
    \* _transcriber_wrapper, asr/processor.py:184
    {LogLine(TRUE, "asr_completed", "transcriber_wrapper", p, e) : p \in LogPaths, e \in Elapsed}
    \* the vendor's operation-level line, e.g. asr/sber/scripts.py:38
    \cup {LogLine(TRUE, "other", "transcribe_audio", p, e) : p \in LogPaths, e \in Elapsed}
    \cup { \* "starting transcription", asr/processor.py:180
           LogLine(TRUE, "other", "transcriber_wrapper", Mp3("", "a"), -1),
           \* "file was uploaded ...", asr/sber/scripts.py:25
           LogLine(TRUE, "other", "transcribe_audio", Mp3("", "b"), -1),
           \* a continuation line (traceback, wrapped text): no header
           LogLine(FALSE, "asr_completed", "", Mp3("", "b"), 30),
           \* _summarizer_wrapper, llm/processor.py:196
           LogLine(TRUE, "llm_completed", "summarizer_wrapper", Mp3("", "b"), 125),
           LogLine(TRUE, "llm_completed", "summarizer_wrapper", Mp3("", "a"), 30),
           LogLine(TRUE, "llm_completed", "summarizer_wrapper", Mp3("", "a"), 125),
           LogLine(TRUE, "llm_completed", "summarizer_wrapper", Mp3("sub", "a"), 30),
           \* a timed line of another function
           LogLine(TRUE, "other", "transcriber_wrapper", Mp3("", "a"), 30),
           \* a completed message logged from a function named transcribe_audio
           LogLine(TRUE, "asr_completed", "transcribe_audio", Mp3("", "b"), 30) }

\* asr/processor.py:202: re_complete needs the phrase and both extras
ReCompleteASR(l) == l.msg = "asr_completed" /\ l.file # NoPath /\ l.elapsed >= 0

\* llm/processor.py:275: re_complete of the LLM extractor; any line is searched,
\* whatever its header
ReCompleteLLM(l) == l.msg = "llm_completed" /\ l.file # NoPath /\ l.elapsed >= 0

\* asr/processor.py:206: re_operation_complete needs both extras
ReOperationComplete(l) == l.file # NoPath /\ l.elapsed >= 0

None == -1

\* events.setdefault(file_path, {})[field] = elapsed_time: events is a sequence of
\* [file, total, operation] in insertion order, as a dict iterates
IndexOf(events, file) ==
    LET S == {k \in 1..Len(events) : events[k].file = file}
    IN IF S = {} THEN 0 ELSE CHOOSE k \in S : TRUE

SetTotal(events, file, e) ==
    IF IndexOf(events, file) = 0
        THEN Append(events, [file |-> file, total |-> e, operation |-> None])
        ELSE [events EXCEPT ![IndexOf(events, file)].total = e]

SetOperation(events, file, e) ==
    IF IndexOf(events, file) = 0
        THEN Append(events, [file |-> file, total |-> None, operation |-> e])
        ELSE [events EXCEPT ![IndexOf(events, file)].operation = e]

\* one turn of the loop over the lines, asr/processor.py:212-234
ScanLine(events, l) ==
    IF ~l.hdr THEN events
    ELSE IF ReCompleteASR(l) THEN SetTotal(events, l.file, l.elapsed)
    ELSE IF l.func = "transcribe_audio" /\ ReOperationComplete(l)
        THEN SetOperation(events, l.file, l.elapsed)
    ELSE events

\* the greatest element of a non-empty set of positions
Last(S) == CHOOSE k \in S : \A j \in S : j <= k

RECURSIVE Scan(_, _)
Scan(events, lines) ==
    IF lines = <<>> THEN events ELSE Scan(ScanLine(events, Head(lines)), Tail(lines))

\* LogData of one entry, asr/processor.py:245-253
OperationOrZero(ev) == IF ev.operation # None THEN ev.operation ELSE 0
OperationOrTotal(ev) == IF ev.operation # None THEN ev.operation ELSE ev.total

LogData(ev) ==
    [file_name |-> Stem(ev.file.name),
     total_elapsed_time_sec |-> ev.total,
     operation_elapsed_time_sec |-> OperationOrTotal(ev)]

RECURSIVE Emit(_)
Emit(events) ==
    IF events = <<>> THEN <<>>
    ELSE IF Head(events).total = None THEN Emit(Tail(events))
    ELSE <<LogData(Head(events))>> \o Emit(Tail(events))

\* asr/processor.py:197-255
ParseLogFileASR(lines) == Emit(Scan(<<>>, lines))

\* ---- specification: one call of the ASR extractor on a bounded log file
BatchOff ==
    /\ system = "salute" /\ max_threads = 1 /\ env = TRUE /\ root = "dir" /\ dataset = <<>>
    /\ made = FALSE
    /\ outdir = <<>> /\ outdir0 = <<>> /\ run = 1 /\ pc = "off"
    /\ items = <<>> /\ st = <<>> /\ calls = <<>> /\ vraised = <<>>
    /\ counted = <<>> /\ count = 0 /\ log = <<>> /\ runs = <<>>

SeqsUpTo(S, n) == UNION {[1..k -> S] : k \in 0..n}

LogInit ==
    /\ BatchOff
    /\ AuthOff
    /\ MetOff
    /\ JobOff
    /\ ParseOff
    /\ FsOff
    /\ logfile \in SeqsUpTo(LogLines, MaxLog)
    /\ timing = <<>>
    /\ lpc = "input"

ParseLog ==
    /\ lpc = "input"
    /\ timing' = ParseLogFileASR(logfile)
    /\ lpc' = "parsed"
    /\ UNCHANGED <<logfile, notlog>>

\* asr/processor.py:121: file_name_to_log_data, the records keyed by stem; of
\* the records of one stem the dict comprehension keeps the last of the list
ASRIndex(list) ==
    [stem \in {list[k].file_name : k \in 1..Len(list)} |->
        list[Last({k \in 1..Len(list) : list[k].file_name = stem})]]

\* llm/processor.py:279-288: result[stem] = elapsed, a dict in insertion order
SetElapsed(result, stem, e) ==
    LET S == {k \in 1..Len(result) : result[k].file_name = stem}
    IN IF S = {} THEN Append(result, [file_name |-> stem, elapsed |-> e])
       ELSE [result EXCEPT ![CHOOSE k \in S : TRUE].elapsed = e]

RECURSIVE ScanLLM(_, _)
ScanLLM(result, lines) ==
    IF lines = <<>> THEN result
    ELSE ScanLLM(IF ReCompleteLLM(Head(lines))
                    THEN SetElapsed(result, Stem(Head(lines).file.name), Head(lines).elapsed)
                    ELSE result,
                 Tail(lines))

\* one call of the LLM extractor
ParseLogLLM ==
    /\ lpc = "input"
    /\ timing' = ScanLLM(<<>>, logfile)
    /\ lpc' = "parsed_llm"
    /\ UNCHANGED <<logfile, notlog>>

LogNext ==
    \/ ParseLog
    \/ ParseLogLLM

LogSpec == LogInit /\ [][LogNext]_vars

\* ------------------------------------------------------------------ claims: timing extractor
\* the positions of the completed lines / operation-level lines of a path
CompletedAt(p) ==
    {k \in 1..Len(logfile) :
        /\ logfile[k].hdr /\ logfile[k].msg = "asr_completed"
        /\ logfile[k].file = p /\ logfile[k].elapsed >= 0}

OperationAt(p) ==
    {k \in 1..Len(logfile) :
        /\ logfile[k].hdr /\ logfile[k].msg # "asr_completed"
        /\ logfile[k].func = "transcribe_audio"
        /\ logfile[k].file = p /\ logfile[k].elapsed >= 0}

CompletedPaths == {p \in LogPaths : CompletedAt(p) # {}}

\* the record the claim describes for a path with a completed line
Expected(p) ==
    LET total == logfile[Last(CompletedAt(p))].elapsed
    IN [file_name |-> Stem(p.name),
        total_elapsed_time_sec |-> total,
        operation_elapsed_time_sec |->
            IF OperationAt(p) # {} THEN logfile[Last(OperationAt(p))].elapsed ELSE total]

\* C9: the extractor returns one record per path that has a completed line and
\* none for any other path; the record's total is the elapsed time of the path's
\* (last) completed line and its operation time that of the path's (last)
\* operation-level line, or the total when there is none. Total-only 12.5 gives
\* (12.5, 12.5); operation 3.0 then completed 12.5 gives (12.5, 3.0)
C9_TimingRecords ==
    lpc = "parsed" =>
        /\ Len(timing) = Cardinality(CompletedPaths)
        /\ \A p \in CompletedPaths :
              Cardinality({k \in 1..Len(timing) : timing[k] = Expected(p)})
                  = Cardinality({q \in CompletedPaths : Expected(q) = Expected(p)})
        /\ logfile = <<LogLine(TRUE, "asr_completed", "transcriber_wrapper", Mp3("", "a"), 125)>>
              => timing = <<[file_name |-> <<"a">>, total_elapsed_time_sec |-> 125,
                             operation_elapsed_time_sec |-> 125]>>
        /\ logfile = <<LogLine(TRUE, "other", "transcribe_audio", Mp3("", "a"), 30),
                       LogLine(TRUE, "asr_completed", "transcriber_wrapper", Mp3("", "a"), 125)>>
              => timing = <<[file_name |-> <<"a">>, total_elapsed_time_sec |-> 125,
                             operation_elapsed_time_sec |-> 30]>>

C9_Witness ==
    /\ lpc = "parsed"
    /\ logfile = <<LogLine(TRUE, "other", "transcribe_audio", Mp3("", "a"), 30),
                   LogLine(TRUE, "asr_completed", "transcriber_wrapper", Mp3("", "a"), 125),
                   LogLine(TRUE, "other", "transcribe_audio", Mp3("", "b"), 30)>>
    /\ timing = <<[file_name |-> <<"a">>, total_elapsed_time_sec |-> 125,
                   operation_elapsed_time_sec |-> 30]>>

\* ------------------------------------------------------------------ metrics
\* A file of a metrics directory: [dir, name, isfile, text]; text is what matters
\* of its content. ASR texts: "words", "other_words", "empty". LLM summaries:
\* "good" (JSON with title, tldr, resume, conclusion), "badjson" (not JSON),
\* "nofield" (JSON lacking a field).
File(dir, name, text) == [dir |-> dir, name |-> name, isfile |-> TRUE, text |-> text]

\* metrics.csv: the fixed header of the domain, then the rows
CsvFile(dom, rows) == [header |-> dom, rows |-> rows]

\* the last position of a set of positions, 0 when it is empty
\* (a dict built by comprehension keeps the last value of a repeated key)
LastOrZero(S) == IF S = {} THEN 0 ELSE Last(S)

\* ---- ASR metrics (asr/processor.py:114-174)
\* name_to_reference_file[file_name], 0 when the name is no key
ReferenceByName(rs, name) ==
    LastOrZero({k \in 1..Len(rs) : rs[k].name = name})

\* jiwer refuses a reference that is empty after the transform (ValueError)
JiwerRaises(ref_text, hyp_text) == ref_text = "empty"

\* file_name_to_log_data.get(stem): total and operation time, 0 without a record
TimeOf(tindex, stem) ==
    LET k == LastOrZero({j \in 1..Len(tindex) : tindex[j].file_name = stem})
    IN IF k = 0 THEN [total |-> 0, operation |-> 0]
       ELSE [total |-> tindex[k].total_elapsed_time_sec,
             operation |-> tindex[k].operation_elapsed_time_sec]

\* one row: the file name, the five scores (a function of the two texts), the times
ASRRow(h, r, tindex) ==
    [file_name |-> h.name,
     scores |-> <<r.text, h.text>>,
     total_elapsed_time_sec |-> TimeOf(tindex, Stem(h.name)).total,
     operation_elapsed_time_sec |-> TimeOf(tindex, Stem(h.name)).operation]

\* a hypothesis whose name is no key of name_to_reference_file: warning, continue
\* (without the test, line 130 would raise KeyError)
OnMissingReferenceKeyError == "raise"
OnMissingReference == "skip"

\* the loop over the hypotheses: rows so far, metrics.csv so far; the file is
\* rewritten at the end of every turn that appended a row
RECURSIVE ASRLoop(_, _, _, _, _)
ASRLoop(hs, rs, tindex, rows, file) ==
    IF hs = <<>> THEN [csv |-> file, raised |-> FALSE]
    ELSE LET h == Head(hs)
             k == ReferenceByName(rs, h.name)
         IN IF k = 0
               THEN IF OnMissingReference = "skip"
                       THEN ASRLoop(Tail(hs), rs, tindex, rows, file)
                       ELSE [csv |-> file, raised |-> TRUE]
            ELSE IF JiwerRaises(rs[k].text, h.text)
               THEN [csv |-> file, raised |-> TRUE]
            ELSE ASRLoop(Tail(hs), rs, tindex, Append(rows, ASRRow(h, rs[k], tindex)),
                         <<CsvFile("asr", Append(rows, ASRRow(h, rs[k], tindex)))>>)

ASRMetricsResult(hdir, rdir, lines, file) ==
    ASRLoop(FindFiles(hdir, "txt"), FindFiles(rdir, "txt"),
            ParseLogFileASR(lines), <<>>, file)

\* ---- LLM metrics (llm/processor.py:87-174)
\* str.split(sep) on a token sequence: the parts between the separators
RECURSIVE Split(_, _)
Split(q, sep) ==
    LET S == {i \in 1..Len(q) : q[i] = sep}
        i == CHOOSE m \in S : \A j \in S : m <= j
    IN IF S = {} THEN <<q>>
       ELSE <<SubSeq(q, 1, i - 1)>> \o Split(SubSeq(q, i + 1, Len(q)), sep)

\* _parse_file_path: the 4th and 5th dot-separated parts of the stem, each up to
\* its first "_"; IndexError when the stem has fewer than five parts
ParseFilePathRaises(name) == Len(Split(Stem(name), ".")) < 5

ParseFilePath(name) ==
    [file_name |-> Stem(name),
     people_count |-> Split(Split(Stem(name), ".")[4], "_")[1],
     time_in_minute |-> Split(Split(Stem(name), ".")[5], "_")[1]]

\* _extract_text_from_summary_file: the joined fields, "" for text that is not
\* JSON; a missing field raises KeyError, which nothing catches
ExtractRaises(f) == f.text = "nofield"
ExtractText(f) == IF f.text = "badjson" THEN "" ELSE "text"

\* references_paths_by_filename[stem]: the references of a stem, in listing order
ReferencesByStem(rs, stem) ==
    LET Same(f) == Stem(f.name) = stem
    IN SelectSeq(rs, Same)

\* llm _parse_log_file: result[stem] = elapsed for every line that matches
\* re_complete, later lines overwriting earlier ones

ParseLogFileLLM(lines) ==
    LET Hit(l) == ReCompleteLLM(l)
    IN SelectSeq(lines, Hit)

\* log_data.get(stem, 0)
ElapsedOf(lines, stem) ==
    LET hits == ParseLogFileLLM(lines)
        k == LastOrZero({j \in 1..Len(hits) : Stem(hits[j].file.name) = stem})
    IN IF k = 0 THEN 0 ELSE hits[k].elapsed

\* Python compares strings character by character, a proper prefix being smaller
CharRank(c) ==
    CASE c = "0" -> 0 [] c = "1" -> 1 [] c = "2" -> 2 [] c = "3" -> 3 [] c = "9" -> 9
      [] OTHER -> 10

RECURSIVE StrLess(_, _)
StrLess(a, b) ==
    IF b = <<>> THEN FALSE
    ELSE IF a = <<>> THEN TRUE
    ELSE IF CharRank(Head(a)) # CharRank(Head(b)) THEN CharRank(Head(a)) < CharRank(Head(b))
    ELSE StrLess(Tail(a), Tail(b))

\* the sort key (x[2], x[1]) = (time_in_minute, person_count), both strings
KeyLess(x, y) ==
    \/ StrLess(x.time_in_minute, y.time_in_minute)
    \/ /\ x.time_in_minute = y.time_in_minute
       /\ StrLess(x.person_count, y.person_count)

\* list.sort is stable: a row goes after the rows whose key is not greater
RECURSIVE Insert(_, _)
Insert(sorted, x) ==
    IF sorted = <<>> THEN <<x>>
    ELSE IF KeyLess(x, Head(sorted)) THEN <<x>> \o sorted
    ELSE <<Head(sorted)>> \o Insert(Tail(sorted), x)

RECURSIVE SortRows(_, _)
SortRows(done, rest) ==
    IF rest = <<>> THEN done ELSE SortRows(Insert(done, Head(rest)), Tail(rest))

\* llm/processor.py:107: the references whose text is empty are dropped
NonEmptyRefsKeepAll(mine) == mine
NonEmptyRefs(mine) ==
    LET NonEmpty(f) == ExtractText(f) # ""
    IN SelectSeq(mine, NonEmpty)

\* where a file is: what tells two files of a directory tree apart
Where(f) == [dir |-> f.dir, name |-> f.name]

RECURSIVE Wheres(_)
Wheres(fs) == IF fs = <<>> THEN <<>> ELSE <<Where(Head(fs))>> \o Wheres(Tail(fs))

\* one row: the identity fields, the scores (a function of the hypothesis text
\* and of the reference texts handed to the scorers), the elapsed time
LLMRow(h, texts, lines) ==
    [file_name |-> ParseFilePath(h.name).file_name,
     person_count |-> ParseFilePath(h.name).people_count,
     time_in_minute |-> ParseFilePath(h.name).time_in_minute,
     scores |-> [hyp |-> Where(h), refs |-> Wheres(texts)],
     elapsed_time_sec |-> ElapsedOf(lines, Stem(h.name))]

\* a hypothesis whose stem is no key of references_paths_by_filename: continue
OnMissingReferences == "skip"

\* the loop over the hypotheses; the rows gathered, or raised
RECURSIVE LLMLoop(_, _, _, _)
LLMLoop(hs, rs, lines, rows) ==
    IF hs = <<>> THEN [rows |-> rows, raised |-> FALSE]
    ELSE LET h == Head(hs)
             mine == ReferencesByStem(rs, Stem(h.name))
             texts == NonEmptyRefs(mine)
         IN IF mine = <<>>
               THEN IF OnMissingReferences = "skip"
                       THEN LLMLoop(Tail(hs), rs, lines, rows)
                       ELSE [rows |-> rows, raised |-> TRUE]
            ELSE IF (\E k \in 1..Len(mine) : ExtractRaises(mine[k])) \/ ExtractRaises(h)
               THEN [rows |-> rows, raised |-> TRUE]
            ELSE IF ExtractText(h) = "" \/ texts = <<>>
               THEN LLMLoop(Tail(hs), rs, lines, rows)
            ELSE IF ParseFilePathRaises(h.name)
               THEN [rows |-> rows, raised |-> TRUE]
            ELSE LLMLoop(Tail(hs), rs, lines, Append(rows, LLMRow(h, texts, lines)))

\* a run that rewrote the file in every turn of the loop: what was gathered
\* before a raise is in the file
LLMMetricsResultWriteEach(hdir, rdir, lines, file) ==
    LET loop == LLMLoop(FindFiles(hdir, "json"), FindFiles(rdir, "json"), lines, <<>>)
    IN [csv |-> <<CsvFile("llm", SortRows(<<>>, loop.rows))>>, raised |-> loop.raised]

\* the file after the run: written once, after the loop and the sort
LLMMetricsResult(hdir, rdir, lines, file) ==
    LET loop == LLMLoop(FindFiles(hdir, "json"), FindFiles(rdir, "json"), lines, <<>>)
    IN IF loop.raised THEN [csv |-> file, raised |-> TRUE]
       ELSE [csv |-> <<CsvFile("llm", SortRows(<<>>, loop.rows))>>, raised |-> FALSE]

\* ---- specification: one metrics run on bounded directories
Txt(stem) == stem \o <<".", "txt">>
Json(stem) == stem \o <<".", "json">>

\* stems of the form <a>.<b>.<c>.<persons>_p.<minutes>_m, and one that is too short
Stem2p30m == <<"e", ".", "x", ".", "y", ".", "2", "_", "p", ".", "3", "0", "_", "m">>
Stem10p9m == <<"e", ".", "x", ".", "z", ".", "1", "0", "_", "p", ".", "9", "_", "m">>
Stem3p2m == <<"e", ".", "x", ".", "w", ".", "3", "_", "p", ".", "2", "_", "m">>
StemShort == <<"s">>

HypUniverse(dom) ==
    IF dom = "asr"
        THEN << File("", Txt(<<"a">>), "words"),
                File("", Txt(<<"b">>), "other_words"),
                File("sub", Txt(<<"a">>), "other_words"),
                File("", Txt(<<"c">>), "words") >>
        ELSE << File("", Json(Stem2p30m), "good"),
                File("", Json(Stem10p9m), "good"),
                File("", Json(StemShort), "good"),
                File("sub", Json(Stem10p9m), "nofield"),
                File("", Json(Stem3p2m), "badjson") >>

RefUniverse(dom) ==
    IF dom = "asr"
        THEN << File("", Txt(<<"a">>), "words"),
                File("", Txt(<<"b">>), "empty"),
                File("", Txt(<<"c">>), "words") >>
        ELSE << File("", Json(Stem2p30m), "good"),
                File("ann", Json(Stem2p30m), "badjson"),
                File("", Json(Stem10p9m), "good"),
                File("", Json(StemShort), "good"),
                File("ann", Json(Stem10p9m), "nofield"),
                File("", Json(Stem3p2m), "good") >>

\* the log of the run that produced the hypotheses: empty, or one completed line
MetLogs(dom) ==
    IF dom = "asr"
        THEN {<<>>, <<LogLine(TRUE, "asr_completed", "transcriber_wrapper", Mp3("", "a"), 125)>>}
        ELSE {<<>>, <<LogLine(TRUE, "llm_completed", "summarizer_wrapper",
                               [dir |-> "", name |-> Txt(Stem2p30m), isfile |-> TRUE], 125)>>}

\* a row left in metrics.csv by an earlier run
OldRow(dom) ==
    IF dom = "asr"
        THEN [file_name |-> Txt(<<"old">>), scores |-> <<"words", "words">>,
              total_elapsed_time_sec |-> 0, operation_elapsed_time_sec |-> 0]
        ELSE [file_name |-> <<"old">>, person_count |-> <<"1">>, time_in_minute |-> <<"1">>,
              scores |-> [hyp |-> [dir |-> "", name |-> Json(<<"old">>)], refs |-> <<>>],
              elapsed_time_sec |-> 0]

SubSeqs(universe) ==
    {Pick(universe, S) : S \in {T \in SUBSET (1..Len(universe)) : Cardinality(T) <= MaxFiles}}

MetInit ==
    /\ BatchOff
    /\ AuthOff
    /\ JobOff
    /\ ParseOff
    /\ FsOff
    /\ timing = <<>> /\ lpc = "off"
    /\ mdomain \in {"asr", "llm"}
    /\ logfile \in MetLogs(mdomain)
    /\ hyps \in SubSeqs(HypUniverse(mdomain))
    /\ refs \in SubSeqs(RefUniverse(mdomain))
    /\ csv \in {<<>>, <<CsvFile(mdomain, <<OldRow(mdomain)>>)>>}
    /\ csv0 = csv
    /\ mpc = "ready"

ASRMetrics ==
    /\ mpc = "ready" /\ mdomain = "asr"
    /\ csv' = ASRMetricsResult(hyps, refs, logfile, csv).csv
    /\ mpc' = IF ASRMetricsResult(hyps, refs, logfile, csv).raised THEN "raised" ELSE "done"
    /\ UNCHANGED <<mdomain, hyps, refs, csv0, notmet>>

LLMMetrics ==
    /\ mpc = "ready" /\ mdomain = "llm"
    /\ csv' = LLMMetricsResult(hyps, refs, logfile, csv).csv
    /\ mpc' = IF LLMMetricsResult(hyps, refs, logfile, csv).raised THEN "raised" ELSE "done"
    /\ UNCHANGED <<mdomain, hyps, refs, csv0, notmet>>

MetNext ==
    \/ ASRMetrics
    \/ LLMMetrics

MetSpec == MetInit /\ [][MetNext]_vars

\* ------------------------------------------------------------------ claims: metrics
MetExt == IF mdomain = "asr" THEN "txt" ELSE "json"

HypFiles == FindFiles(hyps, MetExt)
RefFiles == FindFiles(refs, MetExt)

\* the references a hypothesis is joined with: same file name (ASR), same stem (LLM)
RefsOf(h) ==
    {k \in 1..Len(RefFiles) :
        IF mdomain = "asr" THEN RefFiles[k].name = h.name
        ELSE Stem(RefFiles[k].name) = Stem(h.name)}

\* the rows this run wrote (none when it left the file as it found it)
RunRows == IF csv = csv0 THEN <<>> ELSE csv[1].rows

\* what a row is named after: the file name (ASR), the stem (LLM)
RowName(h) == IF mdomain = "asr" THEN h.name ELSE Stem(h.name)

\* a joined pair that cannot be scored: an empty reference text (ASR); a summary
\* lacking a field, or a stem too short to parse (LLM)
Unscorable(h) ==
    IF mdomain = "asr"
        THEN RefFiles[Last(RefsOf(h))].text = "empty"
        ELSE \/ h.text = "nofield"
             \/ \E k \in RefsOf(h) : RefFiles[k].text = "nofield"
             \/ Len(Split(Stem(h.name), ".")) < 5

\* a joined pair the LLM run passes over: no text on one side
Passed(h) ==
    /\ mdomain = "llm"
    /\ h.text = "badjson" \/ \A k \in RefsOf(h) : RefFiles[k].text = "badjson"

\* C10: a hypothesis without a matching reference (by file name in ASR, by stem
\* in LLM) gets no row and is never what makes the run raise; the hypotheses that
\* have a reference get their rows in the same run
C10_MissingReferenceSkipped ==
    mpc \in {"done", "raised"} =>
        /\ \A k \in 1..Len(RunRows) :
              \E i \in 1..Len(HypFiles) :
                  RefsOf(HypFiles[i]) # {} /\ RowName(HypFiles[i]) = RunRows[k].file_name
        /\ mpc = "raised" =>
              \E i \in 1..Len(HypFiles) :
                  RefsOf(HypFiles[i]) # {} /\ Unscorable(HypFiles[i])
        /\ mpc = "done" =>
              Len(RunRows) = Cardinality({i \in 1..Len(HypFiles) :
                                 RefsOf(HypFiles[i]) # {} /\ ~Passed(HypFiles[i])})

C10_Witness ==
    /\ mpc = "done" /\ mdomain = "asr"
    /\ Len(HypFiles) = 3
    /\ RefsOf(HypFiles[1]) # {} /\ RefsOf(HypFiles[2]) = {} /\ RefsOf(HypFiles[3]) # {}
    /\ Len(RunRows) = 2

\* the hypothesis a row of an LLM run was computed from
HypOfRow(row) == {i \in 1..Len(HypFiles) : Where(HypFiles[i]) = row.scores.hyp}

\* C11: every row of a finished LLM metrics run comes from a hypothesis whose
\* extracted text is non-empty and that has a reference with non-empty text; a
\* summary that is not JSON reads as empty text, is not among the references a
\* row was scored against, and yields no row as a hypothesis
C11_RowsNeedBothTexts ==
    (mdomain = "llm" /\ mpc = "done") =>
        /\ Len(csv) = 1
        /\ \A k \in 1..Len(csv[1].rows) :
              LET row == csv[1].rows[k]
              IN /\ HypOfRow(row) # {}
                 /\ \A i \in HypOfRow(row) :
                       /\ ExtractText(HypFiles[i]) # ""
                       /\ HypFiles[i].text # "badjson"
                       /\ \E j \in RefsOf(HypFiles[i]) : ExtractText(RefFiles[j]) # ""
                 /\ row.scores.refs # <<>>
                 /\ \A j \in 1..Len(row.scores.refs) :
                       \E r \in 1..Len(RefFiles) :
                           /\ Where(RefFiles[r]) = row.scores.refs[j]
                           /\ RefFiles[r].text # "badjson"
        /\ \A i \in 1..Len(HypFiles) :
              (HypFiles[i].text = "badjson" \/ \A j \in RefsOf(HypFiles[i]) : RefFiles[j].text = "badjson")
                  => \A k \in 1..Len(csv[1].rows) : csv[1].rows[k].scores.hyp # Where(HypFiles[i])
        /\ \A f \in {HypFiles[i] : i \in 1..Len(HypFiles)} \cup {RefFiles[j] : j \in 1..Len(RefFiles)} :
              f.text = "badjson" => ExtractText(f) = ""

\* a hypothesis scored against its one readable reference, the reference that is
\* not JSON left out, next to a hypothesis that is not JSON and gets no row
C11_Witness ==
    /\ mdomain = "llm" /\ mpc = "done"
    /\ Len(HypFiles) = 2 /\ HypFiles[1].text = "good" /\ HypFiles[2].text = "badjson"
    /\ RefsOf(HypFiles[2]) # {}
    /\ \E j \in RefsOf(HypFiles[1]) : RefFiles[j].text = "badjson"
    /\ Len(csv[1].rows) = 1
    /\ Len(csv[1].rows[1].scores.refs) = 1

\* the hypotheses a finished run has a row for: joined with a reference and scored
Scored == {i \in 1..Len(HypFiles) : RefsOf(HypFiles[i]) # {} /\ ~Passed(HypFiles[i])}

\* C12: when a metrics run completes, metrics.csv exists and holds the header of
\* the domain followed by exactly the rows of this run, one per matched
\* hypothesis; no row of an earlier run is left in it
C12_CsvHoldsThisRunsRows ==
    mpc = "done" =>
        /\ Len(csv) = 1
        /\ csv[1].header = mdomain
        /\ Len(csv[1].rows) = Cardinality(Scored)
        /\ \A k \in 1..Len(csv[1].rows) :
              /\ csv[1].rows[k] # OldRow(mdomain)
              /\ \E i \in Scored : RowName(HypFiles[i]) = csv[1].rows[k].file_name

\* the number a string of decimal digits denotes
RECURSIVE ToInt(_)
ToInt(digits) ==
    IF digits = <<>> THEN 0
    ELSE 10 * ToInt(SubSeq(digits, 1, Len(digits) - 1)) + CharRank(digits[Len(digits)])

\* (duration in minutes, person count) of a row, as numbers
NumKeyLeq(x, y) ==
    \/ ToInt(x.time_in_minute) < ToInt(y.time_in_minute)
    \/ /\ ToInt(x.time_in_minute) = ToInt(y.time_in_minute)
       /\ ToInt(x.person_count) <= ToInt(y.person_count)

\* C13: the rows of an LLM run are in ascending order of (duration in minutes,
\* person count), whatever the file names; the rows of an ASR run are in the
\* order in which the hypotheses were discovered
C13_RowOrder ==
    mpc = "done" =>
        IF mdomain = "llm"
            THEN \A k, l \in 1..Len(RunRows) : k < l => NumKeyLeq(RunRows[k], RunRows[l])
            ELSE LET Matched(h) == RefsOf(h) # {}
                     joined == SelectSeq(HypFiles, Matched)
                 IN /\ Len(RunRows) = Len(joined)
                    /\ \A k \in 1..Len(RunRows) : RunRows[k].file_name = joined[k].name

\* ------------------------------------------------------------------ a unit on a cloud vendor
\* One call of transcriber_wrapper for a cloud vendor whose recognition runs as a
\* remote job: salute (asr/sber/scripts.py), speechkit (asr/yandex/scripts.py),
\* azure (asr/azure/scripts.py). The remote job ends as done, as failed ("error")
\* or as cancelled.
CloudVendors == {"salute", "speechkit", "azure"}

\* what the waiting loop does with the status it is given:
\*   salute     task.status in ["DONE", "ERROR"]: return, or raise on "ERROR"; any
\*              other status (NEW, RUNNING, CANCELED) sleeps and asks again
\*   speechkit  operation.done or operation.error is not None: raise when the error
\*              is set (failure or cancellation), return otherwise
\*   azure      session_stopped and canceled both run stop_cb, which ends the loop
PollVerdict(v, status) ==
    CASE v = "salute" ->
            IF status = "done" THEN "return" ELSE IF status = "error" THEN "raise" ELSE "sleep"
      [] v = "speechkit" ->
            IF status = "done" THEN "return"
            ELSE IF status \in {"error", "canceled"} THEN "raise" ELSE "sleep"
      [] v = "azure" ->
            IF status = "pending" THEN "sleep" ELSE "return"

JobInit ==
    /\ BatchOff
    /\ AuthOff
    /\ LogOff
    /\ MetOff
    /\ ParseOff
    /\ FsOff
    /\ vendor \in CloudVendors
    /\ job = "pending" /\ seen = "none" /\ polls = 0 /\ segs = <<>>
    /\ upc = "idle" /\ ures = "unset" /\ ufile = "absent" /\ ulines = <<>> /\ ulog = <<>>

\* the wrapper logs "starting transcription" and enters the vendor callable, which
\* uploads the audio and creates the remote job; either request can raise
UnitStart ==
    /\ upc = "idle"
    /\ ulog' = Append(ulog, "starting")
    /\ upc' \in {"waiting", "raising"}
    /\ UNCHANGED <<vendor, job, seen, polls, segs, ures, ufile, ulines, notjob>>

\* the remote job ends
RemoteEnds ==
    /\ upc \in {"waiting", "sleeping"} /\ job = "pending"
    /\ job' \in {"done", "error", "canceled"}
    /\ UNCHANGED <<vendor, seen, polls, segs, upc, ures, ufile, ulines, ulog, notjob>>

\* a recognized_cb that kept only the latest result
ResultLastOnly(events) ==
    LET Speech(e) == e.speech
    IN IF SelectSeq(events, Speech) = <<>> THEN <<>>
       ELSE <<SelectSeq(events, Speech)[Len(SelectSeq(events, Speech))].n>>

\* azure recognized_cb: result.append(evt.result.json) for the events whose reason
\* is RecognizedSpeech (an event can also report NoMatch); the list after events
Result(events) ==
    LET Speech(e) == e.speech
        kept == SelectSeq(events, Speech)
    IN [k \in 1..Len(kept) |-> kept[k].n]

\* azure: the recognizer delivers an event to recognized_cb while the session runs
AzureRecognized ==
    /\ vendor = "azure" /\ upc \in {"waiting", "sleeping"} /\ job = "pending"
    /\ Len(segs) < MaxSegs
    /\ \E speech \in BOOLEAN : segs' = Append(segs, [n |-> Len(segs) + 1, speech |-> speech])
    /\ UNCHANGED <<vendor, job, seen, polls, upc, ures, ufile, ulines, ulog, notjob>>

\* one turn of the waiting loop: the status is read, and the loop returns, raises
\* or goes to sleep
Poll ==
    /\ upc = "waiting"
    /\ seen' = job
    /\ CASE PollVerdict(vendor, job) = "return" -> upc' = "finished" /\ polls' = polls
         [] PollVerdict(vendor, job) = "raise" -> upc' = "raising" /\ polls' = polls
         [] OTHER -> /\ upc' = "sleeping"
                     /\ polls' = IF polls < MaxPolls THEN polls + 1 ELSE polls
    /\ UNCHANGED <<vendor, job, segs, ures, ufile, ulines, ulog, notjob>>

\* time.sleep returns and the loop goes round
Wake ==
    /\ upc = "sleeping"
    /\ upc' = "waiting"
    /\ UNCHANGED <<vendor, job, seen, polls, segs, ures, ufile, ulines, ulog, notjob>>

\* after the wait: the operation-level line, the download of the result (salute,
\* speechkit), the output file
Save ==
    /\ upc = "finished"
    /\ \/ /\ ufile' = "written"
          /\ ulines' = IF vendor = "azure" THEN Result(segs) ELSE ulines
          /\ upc' = "returned"
       \/ /\ vendor # "azure"
          /\ ufile' = ufile
          /\ ulines' = ulines
          /\ upc' = "raising"
    /\ ulog' = Append(ulog, "operation")
    /\ UNCHANGED <<vendor, job, seen, polls, segs, ures, notjob>>

\* the wrapper's try block ends: "transcription completed, output saved to"
WrapperReturn ==
    /\ upc = "returned"
    /\ ulog' = Append(ulog, "completed")
    /\ ures' = "path"
    /\ upc' = "ended"
    /\ UNCHANGED <<vendor, job, seen, polls, segs, ufile, ulines, notjob>>

\* the wrapper's except clause: "error while trancribing", None
WrapperExcept ==
    /\ upc = "raising"
    /\ ulog' = Append(ulog, "error")
    /\ ures' = "none"
    /\ upc' = "ended"
    /\ UNCHANGED <<vendor, job, seen, polls, segs, ufile, ulines, notjob>>

JobNext ==
    \/ UnitStart
    \/ RemoteEnds
    \/ AzureRecognized
    \/ Poll
    \/ Wake
    \/ Save
    \/ WrapperReturn
    \/ WrapperExcept

JobSpec == JobInit /\ [][JobNext]_vars

\* ------------------------------------------------------------------ claims: cloud vendor unit
\* C14: once the vendor has reported the job as failed or cancelled, the vendor
\* call raises - the unit is no longer waiting and does not go on to its result -
\* and the unit ends with None from the wrapper, no output file and no
\* "completed" line
C14_FailedJobRaises ==
    seen \in {"error", "canceled"} =>
        /\ upc \in {"raising", "ended"}
        /\ upc = "ended" =>
              /\ ures = "none"
              /\ ufile = "absent"
              /\ \A k \in 1..Len(ulog) : ulog[k] # "completed"

\* ------------------------------------------------------------------ asr parse
\* asr/processor.py parsers: the systems whose output needs text extraction
ParserSystems == {"cloud_s2t", "azure", "speechkit", "salute"}

\* What a vendor's extract_text does with the content of a .json file:
\*   "good"     the vendor's own output
\*   "notjson"  text that is not JSON: json.load / json.loads raises
\*   "nokey"    JSON without the expected key: KeyError, which only the speechkit
\*              extractor catches (it skips the line and returns the rest)
ParserRaises(sys, text) ==
    \/ text = "notjson"
    \/ text = "nokey" /\ sys # "speechkit"

\* the text extract_text returns
Extracted(sys, text) == IF text = "nokey" THEN "" ELSE "words"

\* ASRProcessor.parse has no try around parser(...): what the parser raises leaves
\* the loop and the command
OnParserErrorSkip == "skip"
OnParserError == "propagate"

\* file_path.with_name(file_path.stem + ".txt")
TxtOf(f) == [dir |-> f.dir, name |-> Stem(f.name) \o <<".", "txt">>]

\* the .json files an input directory may hold
ParseUniverse ==
    {<<File("", Json(<<"a">>), c1), File("sub", Json(<<"a">>), c2), File("", Json(<<"b">>), c3)>> :
        c1, c2, c3 \in {"good", "notjson", "nokey"}}

\* a .txt a previous run of parse left behind
OldTxt == [by |-> [dir |-> "", name |-> <<>>], text |-> "words", full |-> TRUE]

ParseInit ==
    /\ BatchOff
    /\ AuthOff
    /\ LogOff
    /\ MetOff
    /\ JobOff
    /\ FsOff
    /\ psystem \in ParserSystems
    /\ \E u \in ParseUniverse : ptree \in SubSeqs(u)
    /\ ptxt \in {<<>>, (TxtOf(File("sub", Json(<<"a">>), "good")) :> OldTxt)}
    /\ pfiles = <<>>
    /\ pidx = 0
    /\ ppc = "idle"

\* json_files = list(find_files(input_dir, ".json"))
ParseBegin ==
    /\ ppc = "idle"
    /\ pfiles' = FindFiles(ptree, "json")
    /\ pidx' = 1
    /\ ppc' = "running"
    /\ UNCHANGED <<psystem, ptree, ptxt, notparse>>

\* one turn of the loop: extract the text, then open the .txt and write it
ParseStep ==
    /\ ppc = "running" /\ pidx <= Len(pfiles)
    /\ LET f == pfiles[pidx]
           keep == [w \in DOMAIN ptxt \ {TxtOf(f)} |-> ptxt[w]]
       IN IF ParserRaises(psystem, f.text)
             THEN /\ ptxt' = ptxt
                  /\ IF OnParserError = "propagate"
                        THEN ppc' = "raised" /\ pidx' = pidx
                        ELSE ppc' = ppc /\ pidx' = pidx + 1
             ELSE \/ /\ ptxt' = keep @@ (TxtOf(f) :>
                                [by |-> Where(f), text |-> Extracted(psystem, f.text), full |-> TRUE])
                     /\ pidx' = pidx + 1
                     /\ ppc' = ppc
                  \/ /\ ptxt' = keep @@ (TxtOf(f) :>
                                [by |-> Where(f), text |-> "", full |-> FALSE])
                     /\ pidx' = pidx
                     /\ ppc' = "write_raised"
    /\ UNCHANGED <<psystem, ptree, pfiles, notparse>>

\* the loop has gone through json_files
ParseEnd ==
    /\ ppc = "running" /\ pidx > Len(pfiles)
    /\ ppc' = "done"
    /\ UNCHANGED <<psystem, ptree, pfiles, pidx, ptxt, notparse>>

ParseNext ==
    \/ ParseBegin
    \/ ParseStep
    \/ ParseEnd

ParseSpec == ParseInit /\ [][ParseNext]_vars

\* ------------------------------------------------------------------ claims: asr parse
\* a file whose content the system's extractor cannot take
Malformed(f) == f.text = "notjson" \/ (f.text = "nokey" /\ psystem # "speechkit")

\* the .txt of a file was written by this run, from that file
WrittenFrom(f) == TxtOf(f) \in DOMAIN ptxt /\ ptxt[TxtOf(f)].by = Where(f)

\* C15: parse stops at the first .json file whose extraction raises: the error
\* leaves the command, that file and the files after it in discovery order get no
\* .txt from this run, and the .txt files written for the files before it remain;
\* a run that meets such a file never completes
C15_ParseStopsAtFirstBadFile ==
    /\ ppc = "raised" =>
          /\ pidx \in 1..Len(pfiles)
          /\ Malformed(pfiles[pidx])
          /\ \A j \in 1..(pidx - 1) : ~Malformed(pfiles[j]) /\ WrittenFrom(pfiles[j])
          /\ \A j \in pidx..Len(pfiles) : ~WrittenFrom(pfiles[j])
    /\ ppc = "done" => \A j \in 1..Len(pfiles) : ~Malformed(pfiles[j])
    /\ (ppc = "running" /\ pidx <= Len(pfiles)) =>
          \A j \in 1..(pidx - 1) : ~Malformed(pfiles[j])

C15_Witness ==
    /\ ppc = "raised" /\ Len(pfiles) = 3 /\ pidx = 2
    /\ WrittenFrom(pfiles[1])
    /\ pfiles[2].text = "nokey" /\ pfiles[3].text = "good"
    /\ TxtOf(pfiles[2]) \in DOMAIN ptxt /\ ptxt[TxtOf(pfiles[2])] = OldTxt

\* ------------------------------------------------------------------ claims: batch runner setup
\* the dataset directory is no directory, or an environment variable is missing
BadSetup == ~env \/ root # "dir"

\* no unit was dispatched, no vendor callable entered, no file written
NothingDispatched ==
    /\ N = 0
    /\ SumSeq(calls) = 0
    /\ log = <<>>
    /\ outdir = outdir0
    /\ runs = <<>>

\* C16: with a dataset path that is no directory, or a missing environment
\* variable, the command fails before any unit is dispatched, before any vendor
\* callable is entered and before any output file is written. (The output
\* directory itself: asr transcribe has not created it; llm summarize, given a bad
\* dataset path, has already created it, empty.)
C16_FailsBeforeAnyUnit ==
    (pc # "idle" /\ BadSetup) =>
        /\ pc = "setup_error"
        /\ NothingDispatched
        /\ made = (DOMAIN outdir0 # {} \/ (Domain(system) = "llm" /\ env))

C16_Witness ==
    /\ pc = "setup_error" /\ env /\ root = "missing"
    /\ Domain(system) = "llm"
    /\ DOMAIN outdir = {} /\ made

\* ------------------------------------------------------------------ file discovery
\* the entries a directory tree may hold: files at the top and two levels down,
\* an upper-case extension, two dots, a name that is only ".mp3" (pathlib: no
\* suffix), a name without a dot, a directory whose name ends in ".mp3" (a link
\* to nowhere is no file either), a file of another extension
FsUniverse ==
    << [dir |-> "", name |-> <<"a", ".", "mp3">>, isfile |-> TRUE],
       [dir |-> "sub/deep", name |-> <<"a", ".", "mp3">>, isfile |-> TRUE],
       [dir |-> "", name |-> <<"a", ".", "MP3">>, isfile |-> TRUE],
       [dir |-> "", name |-> <<"a", ".", "tar", ".", "mp3">>, isfile |-> TRUE],
       [dir |-> "", name |-> <<".", "mp3">>, isfile |-> TRUE],
       [dir |-> "sub", name |-> <<"notes">>, isfile |-> TRUE],
       [dir |-> "", name |-> <<"d", ".", "mp3">>, isfile |-> FALSE],
       [dir |-> "sub", name |-> <<"b", ".", "txt">>, isfile |-> TRUE] >>

FsInit ==
    /\ BatchOff
    /\ AuthOff
    /\ LogOff
    /\ MetOff
    /\ JobOff
    /\ ParseOff
    /\ froot \in {"dir", "missing", "file"}
    /\ ftree \in SubSeqs(FsUniverse)
    /\ froot # "dir" => ftree = <<>>
    /\ fext \in {"mp3", "txt"}
    /\ found = <<>>
    /\ fpc = "call"

\* find_files(directory, extension), its result read to the end
Discover ==
    /\ fpc = "call"
    /\ IF InvalidDirectory(froot)
          THEN found' = <<>> /\ fpc' = "raised"
          ELSE found' = FindFiles(ftree, fext) /\ fpc' = "returned"
    /\ UNCHANGED <<froot, ftree, fext, notfs>>

FsNext == Discover

FsSpec == FsInit /\ [][FsNext]_vars

\* ------------------------------------------------------------------ claims: file discovery
\* the name ends with the extension as written: a dot, then the same characters
EndsWith(name, ext) ==
    /\ Len(name) >= 3
    /\ name[Len(name) - 1] = "."
    /\ name[Len(name)] = ext

\* C17: discovery fails exactly when the root is no existing directory; otherwise
\* it yields each regular file below the root, at any depth, whose suffix is the
\* extension in the same case, once and in listing order, and nothing else: no
\* directory, no file of another extension, no 'a.MP3' for '.mp3'
C17_FindFiles ==
    fpc # "call" =>
        /\ fpc = "raised" <=> froot # "dir"
        /\ fpc = "returned" =>
              /\ \A k \in 1..Len(ftree) :
                    (\E j \in 1..Len(found) : found[j] = ftree[k])
                        <=> (ftree[k].isfile /\ EndsWith(ftree[k].name, fext))
              /\ \A j \in 1..Len(found) :
                    /\ found[j].isfile
                    /\ found[j].name # <<"a", ".", "MP3">>
                    /\ \E k \in 1..Len(ftree) : found[j] = ftree[k]
              /\ \A i, j \in 1..Len(found) : i < j =>
                    \E k, l \in 1..Len(ftree) : k < l /\ ftree[k] = found[i] /\ ftree[l] = found[j]

C17_Witness ==
    /\ fpc = "returned" /\ fext = "mp3" /\ Len(ftree) = 3
    /\ ftree[1].dir = "sub/deep"
    /\ ftree[2].name = <<"a", ".", "MP3">>
    /\ ~ftree[3].isfile
    /\ found = <<ftree[1]>>

\* ------------------------------------------------------------------ claims: dispatch order
\* the vendor is not flagged as safe for concurrent calls (the ASR registry; the
\* LLM registry has no flag), or --max-threads is not greater than 1
SequentialCase ==
    \/ Domain(system) = "asr" /\ ~transcribers[system]
    \/ max_threads <= 1

\* the "completed" and "error" lines of the current run, in log order
EndLog ==
    LET IsEnd(l) == l.kind \in {"completed", "error"}
    IN SelectSeq(log, IsEnd)

\* one unit at a time, in discovery order
OneAtATime ==
    /\ Cardinality(InProgress) <= 1
    /\ \A i \in 1..N : st[i] \in {"running", "ok", "failed"} => \A j \in 1..(i - 1) : Finished(j)
    /\ Len(EndLog) <= N
    /\ \A k \in 1..Len(EndLog) : EndLog[k].file = items[k]

\* C18: in the sequential case the run processes its items one at a time in
\* discovery order - a vendor call starts only when the previous unit has
\* returned or raised, and the success and failure lines appear in discovery
\* order - for the ASR and the LLM runner and for every max_threads <= 1
C18_SequentialInDiscoveryOrder ==
    (SequentialCase /\ pc \notin {"idle", "setup_error"}) =>
        /\ pc \in {"running", "done"}
        /\ OneAtATime

\* ------------------------------------------------------------------ claims: asr re-runs
\* C19: asr transcribe skips no input because of what the output directory
\* holds: every run dispatches each discovered .mp3 file and enters the vendor
\* callable for it, also when its output file already exists
C19_ASRReprocessesAll ==
    Domain(system) = "asr" =>
        /\ Active => items = Discovered
        /\ pc = "done" => \A i \in 1..N : calls[i] = 1 /\ Starts(i) = 1
        /\ \A r \in 1..Len(runs) :
              /\ runs[r].total = runs[r].discovered
              /\ runs[r].vendor_calls = runs[r].discovered

\* a second run over two files whose outputs the first run wrote
C19_Witness ==
    /\ Domain(system) = "asr" /\ run = 2 /\ pc = "done"
    /\ N = 2
    /\ \A i \in 1..N :
          /\ OutName(items[i], OutputExt(system)) \in DOMAIN outdir0
          /\ calls[i] = 1
    /\ runs[1].processed = 2 /\ runs[2].vendor_calls = 2

\* ------------------------------------------------------------------ claims: timing index
\* the stems the paths of the log lines have
LogStems == {Stem(p.name) : p \in LogPaths}

\* the positions of the completed lines whose path has the stem
CompletedOfStem(stem, msg, anyhdr) ==
    {k \in 1..Len(logfile) :
        /\ anyhdr \/ logfile[k].hdr
        /\ logfile[k].msg = msg
        /\ logfile[k].file # NoPath /\ logfile[k].elapsed >= 0
        /\ Stem(logfile[k].file.name) = stem}

\* C20: the timing index has one record for each stem that has a completed line
\* in the log, and the record's time is the elapsed time of the last of those
\* lines in the log - the same path repeated or different paths with one stem -
\* in the ASR extractor (joined by stem in ASRProcessor.metrics) and in the LLM one
C20_LastCompletedLineWins ==
    /\ lpc = "parsed" =>
          \A stem \in LogStems :
              LET at == CompletedOfStem(stem, "asr_completed", FALSE)
              IN IF at = {} THEN stem \notin DOMAIN ASRIndex(timing)
                 ELSE /\ stem \in DOMAIN ASRIndex(timing)
                      /\ ASRIndex(timing)[stem].total_elapsed_time_sec = logfile[Last(at)].elapsed
    /\ lpc = "parsed_llm" =>
          \A stem \in LogStems :
              LET at == CompletedOfStem(stem, "llm_completed", TRUE)
                  recs == {k \in 1..Len(timing) : timing[k].file_name = stem}
              IN IF at = {} THEN recs = {}
                 ELSE /\ Cardinality(recs) = 1
                      /\ \A k \in recs : timing[k].elapsed = logfile[Last(at)].elapsed

\* ------------------------------------------------------------------ claims: late operation line
\* the log without the operation-level lines that follow a completed line of
\* their own path
WithoutLateOperations ==
    LET Late(k) == \E p \in LogPaths : k \in OperationAt(p) /\ \E j \in CompletedAt(p) : j < k
        keep == {k \in 1..Len(logfile) : ~Late(k)}
        pos(n) == CHOOSE k \in keep : Cardinality({j \in keep : j < k}) = n - 1
    IN [n \in 1..Cardinality(keep) |-> logfile[pos(n)]]

\* C21: an operation-level line that comes after a completed line of the same
\* path does not change the result of the ASR extractor: the records are those
\* of the log without such lines, so an operation time is taken only from a
\* line that precedes every completed line of its path
C21_LateOperationIgnored ==
    lpc = "parsed" =>
        /\ timing = ParseLogFileASR(WithoutLateOperations)
        /\ \A p \in CompletedPaths :
              \A k \in 1..Len(timing) :
                  (timing[k].file_name = Stem(p.name)
                   /\ Cardinality({q \in CompletedPaths : Stem(q.name) = Stem(p.name)}) = 1
                   /\ \A o \in OperationAt(p) : \E j \in CompletedAt(p) : j < o)
                      => timing[k].operation_elapsed_time_sec = timing[k].total_elapsed_time_sec

\* ------------------------------------------------------------------ claims: when metrics.csv is written
\* the rows the ASR loop gathers on the directories of this run
ASRRowsGathered ==
    LET r == ASRMetricsResult(hyps, refs, logfile, <<>>)
    IN IF r.csv = <<>> THEN <<>> ELSE r.csv[1].rows

\* metrics.csv had the header and the gathered rows been written once, after the loop
WrittenOnceAfterLoop == <<CsvFile("asr", ASRRowsGathered)>>

\* C22: a finished ASR metrics run leaves the metrics.csv that writing once after
\* the loop would have left, for every choice of hypothesis and reference files,
\* among them no hypothesis at all and no hypothesis with a reference
C22_WriteInLoopEqualsWriteAfter ==
    (mdomain = "asr" /\ mpc = "done") => csv = WrittenOnceAfterLoop

\* ------------------------------------------------------------------ claims: extractors
\* a .json file that is not what the vendor writes: no JSON, or a record lacking
\* the expected fields
Invalid(f) == f.text \in {"notjson", "nokey"}

\* C23: the extractor of every system either returns the text or raises: for a
\* structurally invalid .json file the extraction raises, so parse neither writes
\* a .txt from that file nor goes on to the files after it
C23_ExtractorsRaiseOnInvalid ==
    ppc # "idle" =>
        \A j \in 1..Len(pfiles) :
            Invalid(pfiles[j]) => ~WrittenFrom(pfiles[j]) /\ pidx <= j

\* ------------------------------------------------------------------ claims: the salute waiting loop
\* the unit's own thread keeps running: the wrapper, the waiting loop and the
\* steps after it are taken when they can be; the remote job ends or does not
FairJobSpec ==
    /\ JobSpec
    /\ WF_vars(UnitStart) /\ WF_vars(Poll) /\ WF_vars(Wake) /\ WF_vars(Save)
    /\ WF_vars(WrapperReturn) /\ WF_vars(WrapperExcept)

\* C24: once the salute task is in a final status (DONE, ERROR, CANCELED), which
\* it does not leave, the waiting loop ends: it returns the task when the status
\* is DONE and raises when it is ERROR or CANCELED
C24_SberWaitTerminates ==
    /\ (vendor = "salute" /\ upc \in {"waiting", "sleeping"} /\ job \in {"done", "error", "canceled"})
           ~> (upc \notin {"waiting", "sleeping"})
    /\ [](vendor = "salute" /\ upc = "finished" => job = "done")
    /\ [](vendor = "salute" /\ job \in {"error", "canceled"} /\ upc = "ended" => ures = "none")

\* ------------------------------------------------------------------ claims: failed LLM items
\* the output file of path p in directory dir was left by a unit working on p
LeftBy(dir, p) ==
    /\ OutName(p, "json") \in DOMAIN dir
    /\ dir[OutName(p, "json")].src = p

\* C25: in llm summarize an item counted as failed has left no output file,
\* whichever step of its wrapper raised; so a run that finds the output directory
\* of an earlier run dispatches again every input whose unit had failed
C25_FailedLeavesNoOutput ==
    (Domain(system) = "llm" /\ Active) =>
        /\ \A i \in 1..N :
              st[i] = "failed" => ~(LeftBy(outdir, items[i]) /\ outdir[OutName(items[i], "json")].run = run)
        /\ \A k \in 1..Len(Discovered) :
              (LeftBy(outdir0, Discovered[k]) /\ ~outdir0[OutName(Discovered[k], "json")].full)
                  => Discovered[k] \in ItemSet

\* ------------------------------------------------------------------ claims: the completed line
\* a line of the current run as the timing extractors read it back from the log file
AsLogLine(l) ==
    LogLine(TRUE,
            IF l.kind # "completed" THEN "other"
            ELSE IF Domain(system) = "asr" THEN "asr_completed" ELSE "llm_completed",
            IF l.kind = "operation" THEN "transcribe_audio"
            ELSE IF Domain(system) = "asr" THEN "transcriber_wrapper" ELSE "summarizer_wrapper",
            l.file,
            IF l.kind \in {"completed", "operation"} THEN 30 ELSE -1)

RunLogFile == [k \in 1..Len(log) |-> AsLogLine(log[k])]

\* the stems the extractor of the domain has a timing record for
TimedStems ==
    IF Domain(system) = "asr"
        THEN {ParseLogFileASR(RunLogFile)[k].file_name : k \in 1..Len(ParseLogFileASR(RunLogFile))}
        ELSE {ScanLLM(<<>>, RunLogFile)[k].file_name : k \in 1..Len(ScanLLM(<<>>, RunLogFile))}

\* C26: a "completed, output saved to" line stands in the log only for a unit
\* whose vendor call has returned and whose output file has been written - never
\* for a unit that is still running or that is counted as failed - so the timing
\* extractor has a record only for files whose unit succeeded
C26_CompletedOnlyAfterSuccess ==
    Active =>
        /\ \A k \in LinesOf("completed") :
              \E i \in 1..N :
                  /\ items[i] = log[k].file
                  /\ st[i] = "ok"
                  /\ calls[i] = 1 /\ ~vraised[i]
                  /\ OutName(items[i], OutputExt(system)) \in Written
                  /\ \E j \in LinesOf("starting") : j < k /\ log[j].file = items[i]
        /\ \A i \in 1..N :
              st[i] # "ok" => \A k \in LinesOf("completed") : log[k].file # items[i]
        /\ \A stem \in TimedStems : \E i \in 1..N : st[i] = "ok" /\ Stem(items[i].name) = stem

\* a unit whose remote job ended (its operation-level line is in the log) and
\* whose write then failed, next to a unit that succeeded
C26_Witness ==
    /\ pc = "done" /\ system = "salute" /\ N = 2
    /\ st[1] = "failed" /\ st[2] = "ok"
    /\ \E k \in LinesOf("operation") : log[k].file = items[1]
    /\ Cardinality(LinesOf("completed")) = 1
    /\ TimedStems = {Stem(items[2].name)}

\* ------------------------------------------------------------------ the salute token
\* asr/sber/scripts.py:14 makes one Client, hence one TokenAuth, at import; every
\* request of every worker thread passes it as auth=, and requests calls it
\* (TokenAuth.__call__) while it prepares the request.
MaxClock == 3      \* the clock runs from 1 to this time, in units of 300 s
MaxTokens == 3     \* most tokens the service issues

AuthThreads == 1..MaxThreads

\* _token_expired looks 300 s ahead: one unit of the clock
RefreshMargin == 1

\* the lifetime of the tokens the service issues, in the same unit (the service
\* states 30 minutes; what matters is that it is longer than the margin)
TokenLife == 2

\* time.time() >= self._expires_at - 300
TokenExpired == now >= expires_at - RefreshMargin

\* `with self._lock`: the lock is taken when no thread holds it
LockFreeAlways == TRUE
LockFree == lock = 0

NoHeader == [has |-> FALSE, token |-> 0, expires |-> 0, since |-> 0]
NoResponse == [token |-> 0, expires |-> 0]

AuthInit ==
    /\ BatchOff
    /\ LogOff
    /\ MetOff
    /\ JobOff
    /\ ParseOff
    /\ FsOff
    /\ lock = 0
    /\ access_token = 0
    /\ expires_at = 0
    /\ now = 1
    /\ issued = <<>>
    /\ apc = [t \in AuthThreads |-> "idle"]
    /\ resp = [t \in AuthThreads |-> NoResponse]
    /\ since = [t \in AuthThreads |-> 0]
    /\ sent = [t \in AuthThreads |-> NoHeader]

\* a thread prepares a request: __call__ is entered and the lock acquired
AuthEnter(t) ==
    /\ apc[t] = "idle"
    /\ LockFree
    /\ lock' = t
    /\ since' = [since EXCEPT ![t] = now]
    /\ apc' = [apc EXCEPT ![t] = "check"]
    /\ UNCHANGED <<access_token, expires_at, now, issued, resp, sent, notauth>>

\* if self._token_expired()
AuthCheck(t) ==
    /\ apc[t] = "check"
    /\ apc' = [apc EXCEPT ![t] = IF TokenExpired THEN "refresh" ELSE "attach"]
    /\ UNCHANGED <<lock, access_token, expires_at, now, issued, resp, since, sent, notauth>>

\* leaving the with block on an exception: the lock is released, the request is
\* not sent
AuthRaise(t) ==
    /\ apc' = [apc EXCEPT ![t] = "idle"]
    /\ lock' = IF lock = t THEN 0 ELSE lock

\* _refresh_access_token: the POST to the oauth endpoint; the service issues a
\* token, or the request fails and raise_for_status raises
RefreshPost(t) ==
    /\ apc[t] = "refresh"
    /\ \/ /\ Len(issued) < MaxTokens
          /\ issued' = Append(issued, now + TokenLife)
          /\ resp' = [resp EXCEPT ![t] = [token |-> Len(issued) + 1, expires |-> now + TokenLife]]
          /\ apc' = [apc EXCEPT ![t] = "store_token"]
          /\ lock' = lock
       \/ /\ AuthRaise(t)
          /\ UNCHANGED <<issued, resp>>
    /\ UNCHANGED <<access_token, expires_at, now, since, sent, notauth>>

\* self._access_token = jresponse["access_token"]
StoreToken(t) ==
    /\ apc[t] = "store_token"
    /\ access_token' = resp[t].token
    /\ apc' = [apc EXCEPT ![t] = "store_expiry"]
    /\ UNCHANGED <<lock, expires_at, now, issued, resp, since, sent, notauth>>

\* self._expires_at = int(jresponse["expires_at"]), which raises on a response
\* without that field
StoreExpiry(t) ==
    /\ apc[t] = "store_expiry"
    /\ \/ /\ expires_at' = resp[t].expires
          /\ apc' = [apc EXCEPT ![t] = "attach"]
          /\ lock' = lock
       \/ /\ AuthRaise(t)
          /\ expires_at' = expires_at
    /\ UNCHANGED <<access_token, now, issued, resp, since, sent, notauth>>

\* request.headers["Authorization"] = f"Bearer {self._access_token}"; return
AuthAttach(t) ==
    /\ apc[t] = "attach"
    /\ sent' = [sent EXCEPT ![t] = [has |-> TRUE, token |-> access_token,
                                    expires |-> expires_at, since |-> since[t]]]
    /\ apc' = [apc EXCEPT ![t] = "idle"]
    /\ lock' = IF lock = t THEN 0 ELSE lock
    /\ UNCHANGED <<access_token, expires_at, now, issued, resp, since, notauth>>

\* time passes
Tick ==
    /\ now < MaxClock
    /\ now' = now + 1
    /\ UNCHANGED <<lock, access_token, expires_at, issued, apc, resp, since, sent, notauth>>

AuthNext ==
    \/ \E t \in AuthThreads : AuthEnter(t)
    \/ \E t \in AuthThreads : AuthCheck(t)
    \/ \E t \in AuthThreads : RefreshPost(t)
    \/ \E t \in AuthThreads : StoreToken(t)
    \/ \E t \in AuthThreads : StoreExpiry(t)
    \/ \E t \in AuthThreads : AuthAttach(t)
    \/ Tick

AuthSpec == AuthInit /\ [][AuthNext]_vars

\* ------------------------------------------------------------------ claims: the salute token
\* the threads that are refreshing the token
Refreshing == {t \in AuthThreads : apc[t] \in {"refresh", "store_token", "store_expiry"}}

OpTime(r) == r + r - 1
TotalTime(r) == r + r

LogPathSeq == <<Mp3("", "a"), Mp3("sub", "a"), Mp3("", "b")>>

\* a line of a unit as it stands in the log file
FileLine(l, r) ==
    LogLine(TRUE,
            IF l.kind = "completed" THEN "asr_completed" ELSE "other",
            IF l.kind = "operation" THEN "transcribe_audio" ELSE "transcriber_wrapper",
            l.file,
            CASE l.kind = "operation" -> OpTime(r)
              [] l.kind = "completed" -> TotalTime(r)
              [] OTHER -> -1)

\* the lines one unit of run r appends for path p, ending with outcome o
UnitLines(p, o, r) ==
    LET ls == <<Line("starting", p)>> \o EndLines(p, o, "salute")
    IN [n \in 1..Len(ls) |-> FileLine(ls[n], r)]

\* the lines of a run whose dataset holds the paths with an outcome in f
RECURSIVE RunLines(_, _, _)
RunLines(paths, f, r) ==
    IF paths = <<>> THEN <<>>
    ELSE (IF f[Head(paths)] = "absent" THEN <<>> ELSE UnitLines(Head(paths), f[Head(paths)], r))
         \o RunLines(Tail(paths), f, r)

RunsLogInit ==
    /\ BatchOff
    /\ AuthOff
    /\ MetOff
    /\ JobOff
    /\ ParseOff
    /\ FsOff
    /\ logfile = <<>>
    /\ timing = <<>>
    /\ lpc = "input"

\* one run of the command on some dataset appends its lines to the file
AppendRun ==
    /\ lpc = "input"
    /\ run <= MaxRuns
    /\ \E f \in [LogPaths -> {"absent"} \cup Outcomes("salute")] :
          logfile' = logfile \o RunLines(LogPathSeq, f, run)
    /\ run' = run + 1
    /\ UNCHANGED <<system, max_threads, env, root, dataset, made, outdir, pc, items, st,
                   calls, vraised, counted, count, log, runs, outdir0>>
    /\ UNCHANGED <<timing, lpc, metvars, jobvars, parsevars, fsvars, authvars>>

RunsLogNext ==
    \/ AppendRun
    \/ ParseLog

RunsLogSpec == RunsLogInit /\ [][RunsLogNext]_vars

\* ------------------------------------------------------------------ claims: runs appending to one log file
\* C28: whatever runs have appended to the log file, the total time and the
\* operation time of each timing record were logged by the same attempt: the
\* total is that of some run's completed line and the operation time is that
\* run's operation time, or again the total
C28_TimesFromOneAttempt ==
    lpc = "parsed" =>
        \A k \in 1..Len(timing) :
            \E r \in 1..MaxRuns :
                /\ timing[k].total_elapsed_time_sec = TotalTime(r)
                /\ timing[k].operation_elapsed_time_sec \in {OpTime(r), TotalTime(r)}

\* ------------------------------------------------------------------ claims: the azure session
\* the azure call has left its waiting loop (a call that raised before it started
\* the recognition never entered it)
AzureLeftLoop ==
    /\ vendor = "azure"
    /\ upc \in {"finished", "returned"} \/ (upc = "ended" /\ ures = "path")

PairRaises(h) ==
    /\ RefsOf(h) # {}
    /\ \/ h.text = "nofield"
       \/ \E k \in RefsOf(h) : RefFiles[k].text = "nofield"
       \/ /\ h.text = "good"
          /\ \E k \in RefsOf(h) : RefFiles[k].text = "good"
          /\ Len(Split(Stem(h.name), ".")) < 5

\* C30: an LLM metrics run writes metrics.csv only once every hypothesis has been
\* processed: it raises exactly when processing some pair raises, and then it has
\* written nothing - metrics.csv is as the run found it, absent or with the rows
\* of an earlier run; a run that ends normally has written the file
C30_LLMAbortWritesNothing ==
    (mdomain = "llm" /\ mpc # "ready") =>
        /\ mpc = "raised" <=> \E i \in 1..Len(HypFiles) : PairRaises(HypFiles[i])
        /\ mpc = "raised" => csv = csv0
        /\ mpc = "done" =>
              /\ Len(csv) = 1
              /\ csv[1].header = "llm"
              /\ \A k \in 1..Len(csv[1].rows) : csv[1].rows[k] # OldRow("llm")

\* a pair that would have given a row, then a hypothesis whose name is too
\* short, with a metrics.csv of an earlier run in place
C30_Witness ==
    /\ mdomain = "llm" /\ mpc = "raised"
    /\ Len(HypFiles) = 2
    /\ HypFiles[1].text = "good" /\ ~PairRaises(HypFiles[1])
    /\ \E k \in RefsOf(HypFiles[1]) : RefFiles[k].text = "good"
    /\ HypFiles[2].name = Json(StemShort) /\ PairRaises(HypFiles[2])
    /\ csv0 = <<CsvFile("llm", <<OldRow("llm")>>)>>
    /\ csv = csv0

====
